---------------------------- MODULE Spec2Model ----------------------------
(***************************************************************************)
(* A model of pyboat/core.py: the ridge tools (get_maxRidge, eval_ridge,   *)
(* find_ridge_anneal, cost_func_anneal) and the filters (smooth,           *)
(* sinc_filter, sinc_smooth, sliding_window_amplitude,                     *)
(* normalize_with_envelope).                                               *)
(*                                                                         *)
(* Arrays are functions on 0..n-1, as numpy indexes them.  A call is       *)
(* modelled by the record of its arguments (args), its position (pc), the  *)
(* locals of find_ridge_anneal's loop, and its outcome (ret).              *)
(***************************************************************************)
EXTENDS Integers, Sequences, FiniteSets, TLC

VARIABLES
    args,   \* the arguments of the call under way
    pc,     \* where the call is: a loop head, "done", or the exception raised
    ret,    \* what the call returned, as a tuple (<<>> before it returns or
            \* when it raises)
    ys,     \* find_ridge_anneal: the ridge candidate, one row index per column
    k,      \* find_ridge_anneal: the loop counter
    F,      \* find_ridge_anneal: <<cost before the wiggle>>, <<>> while unbound
    F_c,    \* find_ridge_anneal: <<cost of the candidate>>, <<>> while unbound
    Nrej,   \* find_ridge_anneal: number of consecutive rejections
    T_k,    \* find_ridge_anneal: the temperature, as the argument n of
            \* T_ini*tfac/ln(n); 0 stands for T_ini*tfac itself
    worsened, \* history: some accepted move of this run raised the cost
    warnings, \* the warnings printed so far, in order
    mem     \* the array objects the call has stored into, and those it returned

vars == <<args, pc, ret, ys, k, F, F_c, Nrej, T_k, worsened, warnings, mem>>

\* a local that is not bound yet, a call that has not returned
Unbound == <<>>

(***************************************************************************)
(* Bounds of the model.                                                    *)
(***************************************************************************)
MaxNs == 5        \* rows (periods/scales) of a landscape
MaxNt == 3        \* columns (time points) of a landscape
MaxSteps == 2     \* Nsteps of find_ridge_anneal
MaxJump == 2      \* mx_jump of find_ridge_anneal
MaxPower == 2     \* largest value of a landscape cell
MaxRows == 3      \* rows of a wavelet transform given to the ridge tools
MaxLen == 5       \* length of a signal (columns of its wavelet transform)
MaxSample == 1    \* largest sample of a signal given to the filters

(***************************************************************************)
(* Helpers for numpy arrays.                                               *)
(***************************************************************************)
Abs(x) == IF x < 0 THEN -x ELSE x

RECURSIVE SumTo(_, _)
\* sum of f[0] .. f[n-1]
SumTo(f, n) == IF n <= 0 THEN 0 ELSE f[n - 1] + SumTo(f, n - 1)

\* len(a) of an array
Length(a) == Cardinality(DOMAIN a)

\* numpy's a[i] for an integer i on an axis of length n: negative indices
\* count from the end; outside -n .. n-1 it raises IndexError.
IndexInBounds(i, n) == -n <= i /\ i < n
WrapIndex(i, n) == IF i < 0 THEN i + n ELSE i

\* a[inds] for a boolean array inds: the entries of a where inds holds
RECURSIVE CompressFrom(_, _, _)
CompressFrom(a, inds, i) ==
    IF i >= Length(a) THEN <<>>
    ELSE (IF inds[i] THEN <<a[i]>> ELSE <<>>) \o CompressFrom(a, inds, i + 1)

\* the array with the entries of a sequence
ToArray(s) == [j \in 0..Len(s)-1 |-> s[j + 1]]

\* the first entries of a, as many as inds holds: a[:inds.sum()]
CompressHead(a, inds) ==
    [j \in 0..Cardinality({i \in DOMAIN inds : inds[i]}) - 1 |-> a[j]]

Compress(a, inds) == ToArray(CompressFrom(a, inds, 0))

\* Floats are kept exact, as fractions <<numerator, denominator>> with a
\* positive denominator.
RatLT(a, b) == a[1] * b[2] < b[1] * a[2]
RatLE(a, b) == a[1] * b[2] <= b[1] * a[2]
RatEQ(a, b) == a[1] * b[2] = b[1] * a[2]

(***************************************************************************)
(* Array objects.  An argument's array is named by the argument; an array  *)
(* made by the call is named by the line that makes it.  The contents of   *)
(* an array change only by a store into that object.                       *)
(***************************************************************************)

\* np.array(obj): a copy of obj (copy=True is the default), a new object
NpArray(obj, site) == site

\* an expression over obj written as an augmented assignment (obj -= ...)
\* stores its value into obj itself
ResultInPlace(obj, site) == obj

\* the value of an array expression over obj (obj - c, 1/obj * d, np.diff,
\* np.convolve, ...): numpy allocates a new array for it
Result(obj, site) == site

\* obj[mask] and obj[indices]: advanced indexing copies
Take(obj, site) == site

\* a basic slice of obj, as_strided(obj): a view, which shares obj's memory
View(obj) == obj

\* a new array or table made at a line (np.zeros, np.ones, pd.DataFrame)
New(site) == site

NoMem == [stored |-> {}, returned |-> {}]

\* the arguments of a call that are arrays (or tables)
ArrayArgs(a) ==
    CASE a.fn = "find_ridge_anneal" -> {"landscape"}
      [] a.fn = "compute_spectrum" -> {"signal", "periods"}
      [] a.fn = "scales_from_periods" -> {"periods"}
      [] a.fn = "get_maxRidge" -> {"modulus"}
      [] a.fn = "eval_ridge" -> {"ridge_y", "wlet", "signal", "periods", "tvec"}
      [] a.fn = "find_COI_crossing" -> {"rd"}
      [] a.fn = "sinc_smooth" -> {"raw_signal"}
      [] a.fn = "smooth" -> {"x"}
      [] a.fn = "sliding_window_amplitude" -> {"signal"}
      [] a.fn = "normalize_with_envelope" -> {"dsignal"}
      [] OTHER -> {}

(***************************************************************************)
(* find_ridge_anneal and cost_func_anneal.                                 *)
(* Costs are kept as integers: cost_func_anneal(ys, ..., l, m) below is    *)
(* 100 * N times the float the code returns, with l and m given in         *)
(* hundredths (m = curve_pen * tfac = curve_pen / 100).                    *)
(***************************************************************************)
tfac100 == 1   \* tfac = 0.01, in hundredths

\* landscape[ys, t_inds] can be evaluated
CanIndex(y, landscape) ==
    \A t \in DOMAIN y : IndexInBounds(y[t], Length(landscape))

cost_func_anneal(y, landscape, l, m) ==
    LET N == Length(y)
        Ns == Length(landscape)
        D == -SumTo([t \in 0..N-1 |-> landscape[WrapIndex(y[t], Ns)][t]], N)
        S1 == l * SumTo([t \in 0..N-2 |-> Abs(y[t+1] - y[t])], N - 1)
        S2 == m * SumTo([t \in 0..N-3 |-> Abs(y[t+2] - 2 * y[t+1] + y[t])], N - 2)
    IN  100 * D + S1 + S2

\* incr: the possible jumps, zero removed
incr(mx_jump) == (-mx_jump .. mx_jump) \ {0}

\* A landscape with one ridge: in column t the power peaks at row
\* p0 + d*t (kept on the grid) and falls off by one per row.
Clip(x, lo, hi) == IF x < lo THEN lo ELSE IF x > hi THEN hi ELSE x

RidgeLandscape(Ns, Nt, p0, d) ==
    [y \in 0..Ns-1 |-> [t \in 0..Nt-1 |->
        LET dist == Abs(y - Clip(p0 + d * t, 0, Ns - 1))
        IN  IF MaxPower - dist > 0 THEN MaxPower - dist ELSE 0]]

\* the curvature penalties tried: none, and one that makes m = 1
CurvePens == {0, 100}

\* lines 240-242: ys = y0 * np.ones(Nt, dtype=int)
ysObject == Result(New("line 240 np.ones"), "line 240")

\* lines 311-313: what cost_func_anneal makes of ys and landscape
CostObjects ==
    {Take("landscape", "line 311"), Result(ysObject, "line 312"),
     Result(ysObject, "line 313")}

\* The state when the loop is entered (lines 234-250): a straight line at y0.
InitAnneal ==
    \E Ns \in 1..MaxNs, Nt \in 1..MaxNt :
        \E p0 \in 0..Ns-1, d \in {0, 1}, y0 \in 0..Ns-1, n \in 0..MaxSteps,
           mj \in 1..MaxJump, cp \in CurvePens :
            /\ args = [fn |-> "find_ridge_anneal",
                       landscape |-> RidgeLandscape(Ns, Nt, p0, d),
                       y0 |-> y0, Nsteps |-> n, mx_jump |-> mj, curve_pen |-> cp]
            /\ pc = "anneal"
            /\ ys = [t \in 0..Nt-1 |-> y0]
            /\ k = 0
            /\ F = Unbound
            /\ F_c = Unbound
            /\ Nrej = 0
            /\ T_k = 0
            /\ worsened = FALSE
            /\ ret = Unbound
            /\ warnings = <<>>
            /\ mem = [stored |-> {New("line 234"), Take(New("line 234"), "line 235"),
                                  New("line 239"), New("line 240 np.ones"), ysObject},
                      returned |-> {}]

\* line 271: the candidate
Candidate(y, pos, eps) == [y EXCEPT ![pos] = @ + eps]

\* a test that also lets a candidate of equal cost be rejected
AcceptOnlyDownhill(Fc_now, F_now, u_low) == ~(Fc_now >= F_now /\ ~u_low)

\* lines 275-283: the Metropolis test.  u_low says that the draw
\* u = uniform() is not above exp(-(F_c - F)/T_k).
Accept(Fc_now, F_now, u_low) == ~(Fc_now > F_now /\ ~u_low)

\* line 286 left out: a rejected candidate stays in the ridge
RevertOmitted(y, pos, eps) == y

\* line 286: revert the wiggle
Revert(y, pos, eps) == [y EXCEPT ![pos] = @ - eps]

\* Lines 254 and 271-293: one iteration once pos and eps are chosen.  T_ini is
\* taken positive, as its documentation asks, so that an uphill candidate can
\* be accepted as well as rejected.
Wiggle(pos, eps, u_low) ==
    LET m == args.curve_pen * tfac100
        F_now == cost_func_anneal(ys, args.landscape, 0, m)
        cand == Candidate(ys, pos, eps)
    IN  IF ~CanIndex(cand, args.landscape)
        THEN /\ pc' = "IndexError"
             /\ ys' = cand
             /\ F' = <<F_now>>
             /\ mem' = [mem EXCEPT !.stored = @ \cup CostObjects \cup {ysObject}]
             /\ UNCHANGED <<args, warnings, ret, k, F_c, Nrej, T_k, worsened>>
        ELSE LET Fc_now == cost_func_anneal(cand, args.landscape, 0, m)
                 accept == Accept(Fc_now, F_now, u_low)
             IN  /\ F' = <<F_now>>
                 /\ F_c' = <<Fc_now>>
                 /\ ys' = IF accept THEN cand ELSE Revert(cand, pos, eps)
                 /\ Nrej' = IF accept THEN 0 ELSE Nrej + 1
                 /\ T_k' = 2 + k
                 /\ k' = k + 1
                 /\ worsened' = (worsened \/ (accept /\ Fc_now > F_now))
                 /\ mem' = [mem EXCEPT !.stored = @ \cup CostObjects \cup {ysObject}]
                 /\ UNCHANGED <<args, warnings, pc, ret>>

InLoop == pc = "anneal" /\ k < args.Nsteps

\* lines 250 and 293: the temperature is T_ini / ln(x), with x = 2 + k after
\* iteration k and, for the initial T_k = T_ini, x = e = 2.718281...; x is
\* given in millionths
Euler == 2718281
LogArgument(n) == IF n = 0 THEN Euler ELSE 1000000 * n

\* for T_ini > 0: the temperature T_ini / ln(a) is not above T_ini / ln(b)
TempNotAbove(a, b) == LogArgument(a) >= LogArgument(b)

\* a test that leaves the row Ns - mx_jump - 1 to the random jump
AtTopNarrow(y, Ns, mx_jump) == y >= Ns - mx_jump

\* line 261: the test for the upper scale boundary
AtTop(y, Ns, mx_jump) == y >= Ns - mx_jump - 1

\* line 264: the test for the lower scale boundary
AtBottom(y, mx_jump) == y < mx_jump

\* line 261: the upper scale boundary
AnnealTopBoundary ==
    /\ InLoop
    /\ \E pos \in DOMAIN ys, u_low \in BOOLEAN :
        /\ AtTop(ys[pos], Length(args.landscape), args.mx_jump)
        /\ Wiggle(pos, -1, u_low)

\* line 264: the lower scale boundary
AnnealBottomBoundary ==
    /\ InLoop
    /\ \E pos \in DOMAIN ys, u_low \in BOOLEAN :
        /\ ~AtTop(ys[pos], Length(args.landscape), args.mx_jump)
        /\ AtBottom(ys[pos], args.mx_jump)
        /\ Wiggle(pos, 1, u_low)

\* line 269: a random jump
AnnealJump ==
    /\ InLoop
    /\ \E pos \in DOMAIN ys, u_low \in BOOLEAN, eps \in incr(args.mx_jump) :
        /\ ~AtTop(ys[pos], Length(args.landscape), args.mx_jump)
        /\ ~AtBottom(ys[pos], args.mx_jump)
        /\ Wiggle(pos, eps, u_low)

\* lines 295-300 after at least one iteration
AnnealReturn ==
    /\ pc = "anneal"
    /\ k = args.Nsteps
    /\ F_c # Unbound
    /\ pc' = "done"
    /\ ret' = <<ys, F_c[1]>>
    /\ mem' = [mem EXCEPT !.returned = {ysObject}]
    /\ UNCHANGED <<args, warnings, ys, k, F, F_c, Nrej, T_k, worsened>>

\* line 297 with Nsteps = 0: F_c was never bound
AnnealReturnUnbound ==
    /\ pc = "anneal"
    /\ k = args.Nsteps
    /\ F_c = Unbound
    /\ pc' = "NameError"
    /\ UNCHANGED <<args, warnings, ret, ys, k, F, F_c, Nrej, T_k, worsened, mem>>

NextAnneal ==
    \/ AnnealTopBoundary
    \/ AnnealBottomBoundary
    \/ AnnealJump
    \/ AnnealReturn
    \/ AnnealReturnUnbound

SpecAnneal == InitAnneal /\ [][NextAnneal]_vars

\* the cost of a ridge under the arguments of the run
RunCost(y) == cost_func_anneal(y, args.landscape, 0, args.curve_pen * tfac100)

\* the initial guess: a straight line at y0
StraightLine == [t \in DOMAIN ys |-> args.y0]

OnGrid(y) == \A t \in DOMAIN y : 0 <= y[t] /\ y[t] < Length(args.landscape)

\* C1 (as claimed): at the head of every iteration, and on return, every
\* entry of the ridge is a row index in [0, P).
C1_RidgeStaysOnGrid ==
    (args.fn = "find_ridge_anneal" /\ pc \in {"anneal", "done"}) => OnGrid(ys)

\* C2 (as claimed): the cost returned is cost_func_anneal of the ridge
\* returned, whether the last move was accepted or rejected.
C2_ReturnedCostIsCostOfRidge ==
    (args.fn = "find_ridge_anneal" /\ pc = "done") => ret[2] = RunCost(ret[1])

Abs2(z) == z[1] * z[1] + z[2] * z[2]

\* np.angle(z), in (-pi, pi], for z on an axis; np.angle(0) is 0
Angle(z) ==
    IF z[2] > 0 THEN 1
    ELSE IF z[2] < 0 THEN -1
    ELSE IF z[1] < 0 THEN 2 ELSE 0

\* np.var(x) of an integer array, as a fraction
Var(x) ==
    LET N == Length(x)
        S == SumTo(x, N)
        Q == SumTo([t \in 0..N-1 |-> x[t] * x[t]], N)
    IN  <<N * Q - S * S, N * N>>

\* np.argmax of a column of fractions scans it and keeps the first maximum
RECURSIVE ArgMaxScan(_, _, _)
ArgMaxScan(col, i, best) ==
    IF i >= Length(col) THEN best
    ELSE ArgMaxScan(col, i + 1, IF RatLT(col[best], col[i]) THEN i ELSE best)

\* a scan that keeps the last maximum instead
RECURSIVE ArgMaxScanLast(_, _, _)
ArgMaxScanLast(col, i, best) ==
    IF i >= Length(col) THEN best
    ELSE ArgMaxScanLast(col, i + 1, IF RatLE(col[best], col[i]) THEN i ELSE best)

argmaxLast(col) == ArgMaxScanLast(col, 1, 0)

argmax(col) == ArgMaxScan(col, 1, 0)

\* lines 94-103
get_maxRidge(mod) ==
    LET Nt == Length(mod[0])
    IN  [t \in 0..Nt-1 |-> argmax([y \in DOMAIN mod |-> mod[y][t]])]

\* ---- eval_ridge: its locals, as functions of the arguments a ----

\* line 131
sigma2(a) == Var(a.signal)

\* line 132: |wlet|^2 / sigma2
modulus(a) ==
    [y \in DOMAIN a.wlet |-> [t \in DOMAIN a.wlet[y] |->
        <<Abs2(a.wlet[y][t]) * sigma2(a)[2], sigma2(a)[1]>>]]

\* line 135
dt(a) == a.tvec[1] - a.tvec[0]

\* line 137
Nt(a) == Length(modulus(a)[0])

\* lines 139-142
ridge_per(a) == [t \in 0..Nt(a)-1 |-> a.periods[a.ridge_y[t]]]
ridge_z(a) == [t \in 0..Nt(a)-1 |-> a.wlet[a.ridge_y[t]][t]]
ridge_power(a) == [t \in 0..Nt(a)-1 |-> modulus(a)[a.ridge_y[t]][t]]

\* a threshold test that also keeps the points at the threshold
indsNotStrict(a) == [t \in 0..Nt(a)-1 |-> RatLE(a.power_thresh, ridge_power(a)[t])]

\* lines 144-146
inds(a) == [t \in 0..Nt(a)-1 |-> RatLT(a.power_thresh, ridge_power(a)[t])]

\* lines 147-150
ridge_t(a) == Compress(a.tvec, inds(a))
ridge_phi(a) == Compress([t \in 0..Nt(a)-1 |-> Angle(ridge_z(a)[t]) % 4], inds(a))
sign_power(a) == Compress(ridge_power(a), inds(a))

\* lines 602-619: sqrt(powers) * kappa(periods), kept as the pair it is
\* computed from (signal_std and dt are the same for all rows of a call)
power_to_amplitude(pers, powers) ==
    [j \in DOMAIN pers |-> [sqrt_power |-> powers[j], kappa_of |-> pers[j]]]

\* amplitudes computed from the periods column, smoothed or not
sign_amplitudesOfColumn(a) ==
    power_to_amplitude(
        IF a.smoothing_wsize # 0
        THEN Compress([i \in DOMAIN ridge_per(a) |->
                          [savgol |-> ridge_per(a), window |-> a.smoothing_wsize, at |-> i]],
                      inds(a))
        ELSE Compress(ridge_per(a), inds(a)),
        sign_power(a))

\* line 151
sign_amplitudes(a) == power_to_amplitude(Compress(ridge_per(a), inds(a)), sign_power(a))

\* scipy.signal.savgol_filter(x, window_length, polyorder) with the default
\* mode 'interp': it raises ValueError for a window longer than x and for a
\* polynomial order that is not below the window length.
SavgolRaises(n, window_length, polyorder) ==
    window_length > n \/ polyorder >= window_length

\* its result: one smoothed value per entry of x, kept as a term
savgol_filter(x, window_length, polyorder) ==
    [i \in DOMAIN x |-> [savgol |-> x, window |-> window_length, at |-> i]]

\* lines 159-161: the window sanitized for a short ridge (Ntt = len(ridge_per))
smoothing(a) ==
    LET Ntt == Length(ridge_per(a))
    IN  IF Ntt < a.smoothing_wsize
        THEN (IF Ntt % 2 = 1 THEN Ntt ELSE Ntt - 1)
        ELSE a.smoothing_wsize

\* line 164: the window handed to savgol_filter
AppliedWindow(a) == a.smoothing_wsize

\* smoothing_wsize = 0 stands for None
Smoothed(a) == a.smoothing_wsize # 0

\* line 164 raises
EvalRidgeRaises(a) ==
    Smoothed(a) /\ SavgolRaises(Length(ridge_per(a)), AppliedWindow(a), 3)

\* lines 147, 164: the periods column
sign_per(a) ==
    IF Smoothed(a)
    THEN Compress(savgol_filter(ridge_per(a), AppliedWindow(a), 3), inds(a))
    ELSE Compress(ridge_per(a), inds(a))

\* lines 168-177: the table; 1/x is kept as the pair <<1, x>>
ridge_data(a) ==
    [time |-> ridge_t(a),
     phase |-> ridge_phi(a),
     power |-> sign_power(a),
     amplitude |-> sign_amplitudes(a),
     periods |-> sign_per(a),
     frequencies |-> [j \in DOMAIN sign_per(a) |-> <<1, sign_per(a)[j]>>]]

\* ---- the inputs tried ----

\* a transform with one ridge: the amplitude of RidgeLandscape (cut off one
\* below its peak when flat, so that three rows tie), turning by a quarter
\* turn per sample
RidgeTransform(Ns, N, p0, d, flat) ==
    [y \in 0..Ns-1 |-> [t \in 0..N-1 |->
        LET r == RidgeLandscape(Ns, N, p0, d)[y][t]
            amp == IF flat /\ r = MaxPower THEN r - 1 ELSE r
        IN  CASE t % 4 = 0 -> <<amp, 0>>
              [] t % 4 = 1 -> <<0, amp>>
              [] t % 4 = 2 -> <<-amp, 0>>
              [] OTHER -> <<0, -amp>>]]

\* signals of length N that are not constant: a square wave and a ramp
Signals(N) == { [t \in 0..N-1 |-> IF t % 2 = 0 THEN -1 ELSE 1], [t \in 0..N-1 |-> t] }

\* an ascending period grid
Periods(Ns) == [y \in 0..Ns-1 |-> 2 * (y + 1)]

\* the smoothing windows tried: None (0) and two odd windows above the
\* polynomial order
SmoothingWindows == {0, 5, 7}

\* the largest power along a ridge
RECURSIVE MaxFrom(_, _, _)
MaxFrom(f, i, best) ==
    IF i >= Length(f) THEN best
    ELSE MaxFrom(f, i + 1, IF RatLT(best, f[i]) THEN f[i] ELSE best)
MaxOf(f) == MaxFrom(f, 1, f[0])

InitRidge ==
    /\ \E Ns \in 1..MaxRows, N \in 2..MaxLen :
         \E p0 \in 0..Ns-1, d \in {-1, 0, 1}, flat \in BOOLEAN, sig \in Signals(N) :
            LET w == RidgeTransform(Ns, N, p0, d, flat)
                base == [wlet |-> w, signal |-> sig]
            IN  \/ /\ args = [fn |-> "get_maxRidge", modulus |-> modulus(base)]
                   /\ pc = "get_maxRidge"
                \/ /\ \E y0 \in -1..Ns-1, step \in 1..2, sw \in SmoothingWindows :
                        LET ry == IF y0 = -1 THEN get_maxRidge(modulus(base))
                                  ELSE [t \in 0..N-1 |-> y0]
                            rp == [t \in 0..N-1 |-> modulus(base)[ry[t]][t]]
                            top == MaxOf(rp)
                        IN  \E th \in {<<0, 1>>, <<top[1] + top[2], top[2]>>}
                                        \cup {rp[t] : t \in 0..N-1} :
                                args = [fn |-> "eval_ridge", ridge_y |-> ry, wlet |-> w,
                                        signal |-> sig, periods |-> Periods(Ns),
                                        tvec |-> [t \in 0..N-1 |-> t * step],
                                        power_thresh |-> th, smoothing_wsize |-> sw]
                   /\ pc = "eval_ridge"
    /\ ret = Unbound
    /\ ys = <<>> /\ k = 0 /\ F = Unbound /\ F_c = Unbound /\ Nrej = 0
    /\ T_k = 0 /\ worsened = FALSE /\ warnings = <<>> /\ mem = NoMem

AnnealLocals == <<ys, k, F, F_c, Nrej, T_k, worsened>>

\* line 101: the ridge is a new array; the columns modulus[:, t] are views
\* that are only read
GetMaxRidgeMem == [stored |-> {New("line 101")}, returned |-> {New("line 101")}]

\* lines 131-177: the arrays eval_ridge makes, and the table with its columns
EvalRidgeMem(smoothed) ==
    LET modulusObj == Result("wlet", "line 132")
        ridge_perObj == Take("periods", "line 139")
        ridge_zObj == Take("wlet", "line 140")
        ridge_powerObj == Take(modulusObj, "line 142")
        indsObj == Result(ridge_powerObj, "line 145")
        ridge_tObj == Take("tvec", "line 148")
        ridge_phiObj == Result(Take(Result(ridge_zObj, "line 149 np.angle"),
                                    "line 149 [inds]"), "line 149")
        sign_powerObj == Take(ridge_powerObj, "line 150")
        sign_per0Obj == Take(ridge_perObj, "line 147")
        sign_amplitudesObj == Result(sign_per0Obj, "line 151")
        sign_perObj == IF smoothed
                       THEN Take(Result(ridge_perObj, "line 164 savgol_filter"), "line 164")
                       ELSE sign_per0Obj
        frequenciesObj == Result(sign_perObj, "line 177")
        ridge_dataObj == New("line 168")
        columns == {ridge_tObj, ridge_phiObj, sign_powerObj, sign_amplitudesObj,
                    sign_perObj, frequenciesObj}
    IN  [stored |-> {modulusObj, ridge_perObj, ridge_zObj, ridge_powerObj, indsObj,
                     sign_per0Obj, ridge_dataObj} \cup columns,
         returned |-> {ridge_dataObj} \cup columns]

\* the stores of a call that raises: it returns nothing
Raised(m) == [stored |-> m.stored, returned |-> {}]

GetMaxRidge ==
    /\ pc = "get_maxRidge"
    /\ pc' = "done"
    /\ ret' = <<get_maxRidge(args.modulus)>>
    /\ mem' = GetMaxRidgeMem
    /\ UNCHANGED <<args, warnings, AnnealLocals>>

EvalRidge ==
    /\ pc = "eval_ridge"
    /\ IF EvalRidgeRaises(args)
       THEN pc' = "ValueError" /\ ret' = Unbound /\ mem' = Raised(EvalRidgeMem(TRUE))
       ELSE pc' = "done" /\ ret' = <<ridge_data(args)>>
            /\ mem' = EvalRidgeMem(Smoothed(args))
    /\ UNCHANGED <<args, warnings, AnnealLocals>>

\* ---- find_COI_crossing ----

\* lines 596-599: the slope m = 4 pi / (sqrt(2) (omega0 + sqrt(2 + omega0^2)))
\* = 0.6983710..., in millionths.  Times and periods are whole numbers here,
\* and no product m * time of the inputs tried lies within a millionth of a
\* period.
Morlet_COI == 698371

\* m * time > period, and m * time < period
COIAbove(time, period) == Morlet_COI * time > 1000000 * period
COIBelow(time, period) == Morlet_COI * time < 1000000 * period

\* rd.time.array[::-1]
Reversed(a) == [i \in DOMAIN a |-> a[Length(a) - 1 - i]]

\* line 201: the rows of rd.index[~(coi_left > rd.periods)]
LeftRows(rd) == {i \in DOMAIN rd.time : ~COIAbove(rd.time[i], rd.periods[i])}

\* the right boundary taken from the times in their own order
RightRowsNotReversed(rd) == {i \in DOMAIN rd.time : COIBelow(rd.time[i], rd.periods[i])}

\* line 206: the rows of rd.index[(coi_right < rd.periods)]
RightRows(rd) == {i \in DOMAIN rd.time : COIBelow(Reversed(rd.time)[i], rd.periods[i])}

\* lines 201 and 206: [-1] and [0] of an empty index raise IndexError
COIRaises(rd) == LeftRows(rd) = {} \/ RightRows(rd) = {}

MaxRow(S) == CHOOSE i \in S : \A j \in S : j <= i
MinRow(S) == CHOOSE i \in S : \A j \in S : i <= j

\* lines 199-208
find_COI_crossing(rd) == <<MaxRow(LeftRows(rd)), MinRow(RightRows(rd))>>

\* lines 199-206: the boundaries and the masks are new; two row labels are
\* returned
FindCOIMem ==
    [stored |-> {Result("rd", "line 199"), Result("rd", "line 201"),
                 Result(View("rd"), "line 204"), Result("rd", "line 206")},
     returned |-> {}]

\* The table eval_ridge returned is handed to find_COI_crossing.  The period
\* column of a smoothed table is kept as a term, so this is done for the
\* tables made without smoothing.  tvec, the time vector of the spectrum, is
\* not an argument of the call; it is kept to tell where the spectrum ends.
CallFindCOICrossing ==
    /\ pc = "done"
    /\ args.fn = "eval_ridge"
    /\ ~Smoothed(args)
    /\ args' = [fn |-> "find_COI_crossing", rd |-> ret[1], tvec |-> args.tvec]
    /\ pc' = "find_COI_crossing"
    /\ ret' = Unbound
    /\ mem' = NoMem
    /\ UNCHANGED <<warnings, AnnealLocals>>

FindCOICrossing ==
    /\ pc = "find_COI_crossing"
    /\ IF COIRaises(args.rd)
       THEN pc' = "IndexError" /\ ret' = Unbound
       ELSE pc' = "done" /\ ret' = find_COI_crossing(args.rd)
    /\ mem' = FindCOIMem
    /\ UNCHANGED <<args, warnings, AnnealLocals>>

NextRidge == GetMaxRidge \/ EvalRidge \/ CallFindCOICrossing \/ FindCOICrossing

SpecRidge == InitRidge /\ [][NextRidge]_vars

(***************************************************************************)
(* The filters: sinc_filter, smooth, sinc_smooth, sliding_window_amplitude *)
(* and normalize_with_envelope.  A weighted sum is kept as the array of    *)
(* its terms, weight and sample.                                           *)
(***************************************************************************)

\* line 387
SincFilterRaises(M) == M % 2 # 0

\* lines 390-402: the loop over x = 0 .. last, one windowed-sinc value each
\* (the value at the centre x = M/2 is 2*pi*f_c)
RECURSIVE SincLoop(_, _, _, _)
SincLoop(x, last, M, f_c) ==
    IF x > last THEN <<>>
    ELSE <<[tap |-> x, centre |-> (2 * x = M), f_c |-> f_c]>> \o SincLoop(x + 1, last, M, f_c)

\* a loop that stops one value short
sinc_filterShort(M, f_c) == ToArray(SincLoop(0, M - 1, M, f_c))

\* lines 388-407
sinc_filter(M, f_c) == ToArray(SincLoop(0, M, M, f_c))

\* line 350: `v is 0` compares identities.  A Python int 0 is the one cached
\* object of the literal 0; the zero computed from a numpy integer
\* (np.int64(4) % 2) is a numpy scalar, never that object.
IsZero(v, numpy_int) == v = 0 /\ ~numpy_int

\* lines 344-351: smooth refuses the window; numpy_int says that window_len
\* is a numpy integer and not a Python int
SmoothRaises(size, window_len, numpy_int) ==
    size < window_len \/ window_len < 3 \/ IsZero(window_len % 2, numpy_int)

\* line 361: x mirrored at both ends,
\* np.r_[x[window_len-1:0:-1], x, x[-1:-window_len:-1]]
MirrorPad(x, window_len) ==
    LET N == Length(x)
        left == [j \in 0..window_len-2 |-> x[window_len - 1 - j]]
        right == [j \in 0..window_len-2 |-> x[N - 1 - j]]
    IN  [j \in 0..N + 2 * (window_len - 1) - 1 |->
            IF j < window_len - 1 THEN left[j]
            ELSE IF j < window_len - 1 + N THEN x[j - (window_len - 1)]
            ELSE right[j - (window_len - 1) - N]]

\* line 372: np.convolve(w, s, mode="valid") for len(w) <= len(s)
ConvolveValid(w, s) ==
    LET wl == Length(w)
    IN  [n \in 0..Length(s) - wl |->
            [j \in 0..wl-1 |-> [weight |-> w[j], sample |-> s[n + wl - 1 - j]]]]

\* line 374: y[int((window_len-1)/2) : len(y) - int((window_len-1)/2)]
Trim(y, window_len) ==
    LET h == (window_len - 1) \div 2
    IN  [j \in 0..Length(y) - 2 * h - 1 |-> y[j + h]]

\* lines 361-374, with the evaluated window w
smooth(x, w) == Trim(ConvolveValid(w, MirrorPad(x, Length(w))), Length(w))

\* line 364: the flat window, np.ones(window_len) / window_len
FlatWindow(window_len) == [j \in 0..window_len-1 |-> [flat |-> window_len]]

\* line 428 alone: the kernel order is not made even
DefaultMNotEven(N) == N - 1

\* lines 428-432: the default kernel order
DefaultM(N) == IF (N - 1) % 2 # 0 THEN (N - 1) - 1 ELSE N - 1

\* lines 426-434: the kernel order used; M = -1 stands for None
KernelOrder(a) == IF a.M = -1 THEN DefaultM(Length(a.raw_signal)) ELSE a.M

\* the largest and the smallest of a set of fractions
MaxFrac(S) == CHOOSE m \in S : \A v \in S : RatLE(v, m)
MinFrac(S) == CHOOSE m \in S : \A v \in S : RatLE(m, v)

\* lines 457-458: the window size made odd
OddWindow(window_size) == IF window_size % 2 # 1 THEN window_size + 1 ELSE window_size

\* line 462: as_strided refuses a negative number of rows
SlidingRaises(N, window_size) == N - OddWindow(window_size) + 1 < 0

\* boundary rows that hold the whole first and the whole last window
RollingRowEdgeWindow(r, N, ws) ==
    LET b_size == ws \div 2
    IN  IF r < b_size THEN 0..(IF ws < N THEN ws - 1 ELSE N - 1)
        ELSE IF r < b_size + (N - ws + 1) THEN (r - b_size)..(r - b_size + ws - 1)
        ELSE (IF ws < N THEN N - ws ELSE 0)..(N - 1)

\* lines 462-475: the indices of vector in row r of the rolling matrix rm
\* (the rest of a boundary row is NaN)
RollingRow(r, N, ws) ==
    LET b_size == ws \div 2
    IN  IF r < b_size THEN 0..(b_size + r)
        ELSE IF r < b_size + (N - ws + 1) THEN (r - b_size)..(r - b_size + ws - 1)
        ELSE LET i == b_size - 1 - (r - b_size - (N - ws + 1))
             IN  (N - (b_size + 1 + i))..(N - 1)

\* line 478: (nanmax - nanmin) / 2 of every row, for a vector of fractions
Amplitudes(vector, window_size) ==
    LET N == Length(vector)
        ws == OddWindow(window_size)
        rows == 2 * (ws \div 2) + (N - ws + 1)
    IN  [r \in 0..rows-1 |->
            LET S == {vector[j] : j \in RollingRow(r, N, ws)}
                hi == MaxFrac(S)
                lo == MinFrac(S)
            IN  <<hi[1] * lo[2] - lo[1] * hi[2], 2 * hi[2] * lo[2]>>]

\* lines 480-483 raise: see savgol_filter
EnvelopeRaises(N, window_size, SGsmooth) ==
    \/ SlidingRaises(N, window_size)
    \/ SGsmooth /\ SavgolRaises(N, OddWindow(window_size), 3)

\* lines 454-485
sliding_window_amplitude(vector, window_size, SGsmooth) ==
    IF SGsmooth
    THEN savgol_filter(Amplitudes(vector, window_size), OddWindow(window_size), 3)
    ELSE Amplitudes(vector, window_size)

\* an integer array as fractions
AsFractions(x) == [i \in DOMAIN x |-> <<x[i], 1>>]

\* line 499: dsignal - dsignal.mean()
MeanSubtracted(dsignal) ==
    LET N == Length(dsignal)
        S == SumTo(dsignal, N)
    IN  [i \in DOMAIN dsignal |-> <<N * dsignal[i] - S, N>>]

\* lines 499-505: 1/env * dsignal, kept as the pair of the factors
normalize_with_envelope(dsignal, window_size) ==
    LET signal == MeanSubtracted(dsignal)
        env == sliding_window_amplitude(signal, window_size, TRUE)
    IN  [i \in DOMAIN dsignal |-> [times |-> <<dsignal[i], 1>>, over |-> env[i]]]

\* ---- the calls tried ----
FilterSignals == UNION { [0..N-1 -> 0..MaxSample] : N \in 1..MaxLen }

InitFilter ==
    /\ \/ \E M \in 0..MaxLen + 1 :
            /\ args = [fn |-> "sinc_filter", M |-> M, f_c |-> <<1, 10>>]
            /\ pc = "sinc_filter"
       \/ \E x \in FilterSignals, M \in -1..MaxLen + 1 :
            /\ args = [fn |-> "sinc_smooth", raw_signal |-> x, T_c |-> 10, dt |-> 1, M |-> M]
            /\ pc = "sinc_smooth"
       \/ \E x \in FilterSignals, wl \in 1..MaxLen + 1, np \in BOOLEAN :
            /\ args = [fn |-> "smooth", x |-> x, window_len |-> wl, numpy_int |-> np]
            /\ pc = "smooth"
       \/ \E x \in FilterSignals, ws \in 1..MaxLen + 1, sg \in BOOLEAN :
            /\ args = [fn |-> "sliding_window_amplitude", signal |-> x,
                       window_size |-> ws, SGsmooth |-> sg]
            /\ pc = "sliding_window_amplitude"
       \/ \E x \in FilterSignals, ws \in 1..MaxLen + 1 :
            /\ args = [fn |-> "normalize_with_envelope", dsignal |-> x, window_size |-> ws]
            /\ pc = "normalize_with_envelope"
    /\ ret = Unbound
    /\ ys = <<>> /\ k = 0 /\ F = Unbound /\ F_c = Unbound /\ Nrej = 0
    /\ T_k = 0 /\ worsened = FALSE /\ warnings = <<>> /\ mem = NoMem

\* lines 388-405: the list res, the array made of it and the normalized kernel
SincFilterMem ==
    LET resObj == Result(NpArray(New("line 388"), "line 404"), "line 405")
    IN  [stored |-> {New("line 388"), NpArray(New("line 388"), "line 404"), resObj},
         returned |-> {resObj}]

\* lines 337-374 for the input xObj; dataObj is the external window, or
\* "None" for the flat window made at line 364
SmoothMem(xObj, dataObj) ==
    LET x1 == NpArray(xObj, "line 337")
        sObj == Result(View(x1), "line 361")
        wObj == IF dataObj = "None" THEN New("line 364") ELSE dataObj
        wnorm == Result(wObj, "line 372 w / w.sum()")
        yObj == Result(sObj, "line 372")
    IN  [stored |-> {x1, sObj, wnorm, yObj} \cup (IF dataObj = "None" THEN {wObj} ELSE {}),
         returned |-> {View(yObj)}]

\* lines 420-437
SincSmoothMem ==
    LET signalObj == NpArray("raw_signal", "line 420")
        w == SincFilterMem
        sm == SmoothMem(signalObj, CHOOSE o \in w.returned : TRUE)
    IN  [stored |-> {signalObj} \cup w.stored \cup sm.stored, returned |-> sm.returned]

\* lines 454-485 for the input signalObj: the rolling matrix aa is a view of
\* the copy vector; the boundary rows b_left and b_right are stored into
SlidingMem(signalObj, SGsmooth) ==
    LET vectorObj == NpArray(signalObj, "line 454")
        aaObj == View(vectorObj)
        b_leftObj == Result(New("line 468 np.zeros"), "line 468")
        b_rightObj == Result(New("line 469 np.zeros"), "line 469")
        rmObj == Result(aaObj, "line 475")
        amplitudes0 == Result(rmObj, "line 478")
        amplitudesObj == IF SGsmooth THEN Result(amplitudes0, "line 481") ELSE amplitudes0
    IN  [stored |-> {vectorObj, New("line 468 np.zeros"), New("line 469 np.zeros"),
                     b_leftObj, b_rightObj, rmObj, amplitudes0, amplitudesObj},
         returned |-> {amplitudesObj}]

\* lines 499-505
NormalizeMem ==
    LET signalObj == Result("dsignal", "line 499")
        sl == SlidingMem(signalObj, TRUE)
        envObj == CHOOSE o \in sl.returned : TRUE
        ANsignalObj == Result(Result(envObj, "line 503 1/env"), "line 503")
    IN  [stored |-> {signalObj, Result(envObj, "line 503 1/env"), ANsignalObj}
                        \cup sl.stored,
         returned |-> {ANsignalObj}]

\* lines 377-407
SincFilter ==
    /\ pc = "sinc_filter"
    /\ IF SincFilterRaises(args.M)
       THEN pc' = "AssertionError" /\ ret' = Unbound /\ mem' = NoMem
       ELSE pc' = "done" /\ ret' = <<sinc_filter(args.M, args.f_c)>>
            /\ mem' = SincFilterMem
    /\ UNCHANGED <<args, warnings, AnnealLocals>>

\* lines 410-437 (line 341: the window length len(data) is a Python int)
SincSmooth ==
    /\ pc = "sinc_smooth"
    /\ LET M == KernelOrder(args)
           f_c == <<args.dt, args.T_c>>
       IN  IF SincFilterRaises(M)
           THEN pc' = "AssertionError" /\ ret' = Unbound
                /\ mem' = [stored |-> {NpArray("raw_signal", "line 420")}, returned |-> {}]
           ELSE IF SmoothRaises(Length(args.raw_signal), Length(sinc_filter(M, f_c)), FALSE)
           THEN pc' = "ValueError" /\ ret' = Unbound /\ mem' = Raised(SincSmoothMem)
           ELSE pc' = "done" /\ ret' = <<smooth(args.raw_signal, sinc_filter(M, f_c))>>
                /\ mem' = SincSmoothMem
    /\ UNCHANGED <<args, warnings, AnnealLocals>>

\* lines 323-374 with the default flat window
Smooth ==
    /\ pc = "smooth"
    /\ IF SmoothRaises(Length(args.x), args.window_len, args.numpy_int)
       THEN pc' = "ValueError" /\ ret' = Unbound
            /\ mem' = [stored |-> {NpArray("x", "line 337")}, returned |-> {}]
       ELSE pc' = "done" /\ ret' = <<smooth(args.x, FlatWindow(args.window_len))>>
            /\ mem' = SmoothMem("x", "None")
    /\ UNCHANGED <<args, warnings, AnnealLocals>>

\* lines 439-485
SlidingWindowAmplitude ==
    /\ pc = "sliding_window_amplitude"
    /\ IF EnvelopeRaises(Length(args.signal), args.window_size, args.SGsmooth)
       THEN pc' = "ValueError" /\ ret' = Unbound
            /\ mem' = Raised(SlidingMem("signal", args.SGsmooth))
       ELSE pc' = "done"
            /\ ret' = <<sliding_window_amplitude(AsFractions(args.signal),
                                                 args.window_size, args.SGsmooth)>>
            /\ mem' = SlidingMem("signal", args.SGsmooth)
    /\ UNCHANGED <<args, warnings, AnnealLocals>>

\* lines 487-505
NormalizeWithEnvelope ==
    /\ pc = "normalize_with_envelope"
    /\ IF EnvelopeRaises(Length(args.dsignal), args.window_size, TRUE)
       THEN pc' = "ValueError" /\ ret' = Unbound /\ mem' = Raised(NormalizeMem)
       ELSE pc' = "done"
            /\ ret' = <<normalize_with_envelope(args.dsignal, args.window_size)>>
            /\ mem' = NormalizeMem
    /\ UNCHANGED <<args, warnings, AnnealLocals>>

NextFilter ==
    \/ SincFilter
    \/ SincSmooth
    \/ Smooth
    \/ SlidingWindowAmplitude
    \/ NormalizeWithEnvelope

SpecFilter == InitFilter /\ [][NextFilter]_vars

(***************************************************************************)
(* compute_spectrum and CWT.  Periods and dt are whole numbers of one time *)
(* unit.  The values of the transform are kept as terms; its shape, the    *)
(* warnings and the exceptions are computed as the code computes them.     *)
(***************************************************************************)
MaxDt == 6        \* largest sampling interval dt
MaxPeriod == 6    \* largest period of a grid

\* lines 515, 555 and 578: x_max = int(inverse_gauss(y0/peak_fraction, scale))
\* is int(c * period / dt) with
\*   c = sqrt(2 ln(peak_fraction)) * (omega0 + sqrt(2 + omega0^2)) / (4 pi)
\*     = 5.3222739...
\* given here in millionths.  c is kept to six decimals, and no product
\* c * period / dt of the inputs tried lies that close to a whole number.
SupportFactor == 5322273

x_max(period, dt_) == (SupportFactor * period) \div (1000000 * dt_)

\* a support that is never cut down to the signal length
VecLengthNoFallback(xm, N) == 2 * xm

\* lines 585-589: the number of samples of vec, np.arange(-N/2, N/2) or
\* np.arange(-x_max, x_max)
VecLength(xm, N) == IF 2 * xm > N THEN N ELSE 2 * xm

\* np.convolve(a, v, mode="same") raises ValueError for an empty a or v
ConvolveRaises(n, m) == n = 0 \/ m = 0

\* and returns max(len(a), len(v)) values otherwise
ConvolveSameLength(n, m) == IF n >= m THEN n ELSE m

\* line 592: output[ind, :] = row needs a row of N values (or of one value,
\* which is broadcast)
RowAssignRaises(N, rowlen) == rowlen # N /\ rowlen # 1

\* lines 571-592 raise for the scale of this period
CWTRowRaises(N, period, dt_) ==
    LET m == VecLength(x_max(period, dt_), N)
    IN  ConvolveRaises(N, m) \/ RowAssignRaises(N, ConvolveSameLength(N, m))

\* lines 559-593 raise
CWTRaises(a) ==
    \E y \in DOMAIN a.periods : CWTRowRaises(Length(a.signal), a.periods[y], a.dt)

\* lines 559-593: the transform, len(scales) x len(signal)
CWT(a) ==
    [y \in DOMAIN a.periods |-> [t \in DOMAIN a.signal |->
        [convolved_at |-> t, period |-> a.periods[y],
         support |-> VecLength(x_max(a.periods[y], a.dt), Length(a.signal))]]]

\* line 80: np.abs(wlet) ** 2 / sig2
SpectrumModulus(wlet) ==
    [y \in DOMAIN wlet |-> [t \in DOMAIN wlet[y] |-> [abs2_over_sig2 |-> wlet[y][t]]]]

\* max(periods)
MaxPeriodOf(periods) ==
    CHOOSE m \in {periods[y] : y \in DOMAIN periods} :
        \A y \in DOMAIN periods : periods[y] <= m

\* line 50
BelowNyquist(a) == a.periods[0] < 2 * a.dt

\* lines 69-70
AboveLength(a) == MaxPeriodOf(a.periods) > a.dt * Length(a.signal)

\* lines 50-53 and 70-75: what is printed
SpectrumWarnings(a) ==
    (IF BelowNyquist(a) THEN <<"Nyquist">> ELSE <<>>)
        \o (IF AboveLength(a) THEN <<"LargePeriods">> ELSE <<>>)

\* the ascending sequence of the elements of a set of numbers, as an array
RECURSIVE SortedSeq(_)
SortedSeq(S) ==
    IF S = {} THEN <<>>
    ELSE LET lo == CHOOSE v \in S : \A u \in S : v <= u
         IN  <<lo>> \o SortedSeq(S \ {lo})

\* the ascending period grids of at most MaxRows periods
PeriodGrids ==
    { ToArray(SortedSeq(S)) :
        S \in { T \in SUBSET (1..MaxPeriod) : T # {} /\ Cardinality(T) <= MaxRows } }

InitSpectrum ==
    /\ \E N \in 1..MaxLen, dt_ \in 1..MaxDt, grid \in PeriodGrids :
        \E sig \in { [t \in 0..N-1 |-> t], [t \in 0..N-1 |-> IF t % 2 = 0 THEN -1 ELSE 1] } :
            args = [fn |-> "compute_spectrum", signal |-> sig, dt |-> dt_, periods |-> grid]
    /\ pc = "compute_spectrum"
    /\ ret = Unbound
    /\ ys = <<>> /\ k = 0 /\ F = Unbound /\ F_c = Unbound /\ Nrej = 0
    /\ T_k = 0 /\ worsened = FALSE /\ warnings = <<>> /\ mem = NoMem

\* lines 56-80 and 563-592: the mean-subtracted copy of the signal, the
\* copy of the periods, the scales, and the transform output, whose rows are
\* stored into
SpectrumMem ==
    LET signalObj == Result(NpArray("signal", "line 56 np.array"), "line 56")
        periodsObj == NpArray("periods", "line 58")
        scalesObj == Result(periodsObj, "line 515")
        outputObj == New("line 563")
        rowObj == Result(signalObj, "line 592")
        modulusObj == Result(Result(outputObj, "line 80 np.abs"), "line 80")
    IN  [stored |-> {NpArray("signal", "line 56 np.array"), signalObj, periodsObj,
                     scalesObj, outputObj, rowObj, Result(outputObj, "line 80 np.abs"),
                     modulusObj},
         returned |-> {modulusObj, outputObj}]

\* lines 30-82
ComputeSpectrum ==
    /\ pc = "compute_spectrum"
    /\ warnings' = warnings \o SpectrumWarnings(args)
    /\ IF CWTRaises(args)
       THEN pc' = "ValueError" /\ ret' = Unbound /\ mem' = Raised(SpectrumMem)
       ELSE pc' = "done" /\ ret' = <<SpectrumModulus(CWT(args)), CWT(args)>>
            /\ mem' = SpectrumMem
    /\ UNCHANGED <<args, AnnealLocals>>

NextSpectrum == ComputeSpectrum

SpecSpectrum == InitSpectrum /\ [][NextSpectrum]_vars

(***************************************************************************)
(* scales_from_periods, in floating point.  numpy computes in binary       *)
(* floating point, rounding every product and quotient to the nearest      *)
(* representable number (ties to the even mantissa).  The model keeps that *)
(* arithmetic with a mantissa of MantBits bits instead of 53: a positive   *)
(* float is <<m, e>> with 2^(MantBits-1) <= m < 2^MantBits, of value       *)
(* m * 2^e.                                                                *)
(***************************************************************************)
MantBits == 3     \* bits of a mantissa
MaxExp == 1       \* the inputs have exponents in -MaxExp .. MaxExp

RECURSIVE Pow2(_)
Pow2(n) == IF n <= 0 THEN 1 ELSE 2 * Pow2(n - 1)

\* the float nearest to the positive fraction n/d * 2^e
RECURSIVE Round(_, _, _)
Round(n, d, e) ==
    IF n < d * Pow2(MantBits - 1) THEN Round(2 * n, d, e - 1)
    ELSE IF n >= d * Pow2(MantBits) THEN Round(n, 2 * d, e + 1)
    ELSE LET q == n \div d
             r == n % d
             up == 2 * r > d \/ (2 * r = d /\ q % 2 = 1)
             m == IF up THEN q + 1 ELSE q
         IN  IF m = Pow2(MantBits) THEN <<Pow2(MantBits - 1), e + 1>> ELSE <<m, e>>

FMul(x, y) == Round(x[1] * y[1], 1, x[2] + y[2])
FDiv(x, y) == Round(x[1], y[1], x[2] - y[2])

\* x < y and x <= y for two floats
FLess(x, y) == x[2] < y[2] \/ (x[2] = y[2] /\ x[1] < y[1])
FLessEq(x, y) == x = y \/ FLess(x, y)

\* line 515: omega0 + np.sqrt(2 + omega0 ** 2) = 12.723559... and
\* 4 * pi = 12.566370..., in millionths
OmegaTerm == 12723559
FourPi == 12566371

\* the conversion of a frequency grid, sfreq / periods in place of
\* periods * sfreq
scales_from_frequencies(periods, sfreq) ==
    [y \in DOMAIN periods |->
        FDiv(FDiv(Round(OmegaTerm, 1000000, 0), periods[y]),
             FDiv(Round(FourPi, 1000000, 0), sfreq))]

\* lines 512-516: ((omega0 + sqrt(2 + omega0^2)) * periods * sfreq) / (4 * pi),
\* evaluated from the left
scales_from_periods(periods, sfreq) ==
    [y \in DOMAIN periods |->
        FDiv(FMul(FMul(Round(OmegaTerm, 1000000, 0), periods[y]), sfreq),
             Round(FourPi, 1000000, 0))]

\* the floats given as periods and sampling frequencies
Floats == (Pow2(MantBits - 1) .. Pow2(MantBits) - 1) \X (-MaxExp .. MaxExp)

InitScales ==
    /\ \E p1 \in Floats, p2 \in Floats, sfreq \in Floats :
        /\ FLess(p1, p2)
        /\ args = [fn |-> "scales_from_periods", periods |-> ToArray(<<p1, p2>>),
                   sfreq |-> sfreq]
    /\ pc = "scales_from_periods"
    /\ ret = Unbound
    /\ ys = <<>> /\ k = 0 /\ F = Unbound /\ F_c = Unbound /\ Nrej = 0
    /\ T_k = 0 /\ worsened = FALSE /\ warnings = <<>> /\ mem = NoMem

\* lines 512-516
ScalesFromPeriods ==
    /\ pc = "scales_from_periods"
    /\ pc' = "done"
    /\ ret' = <<scales_from_periods(args.periods, args.sfreq)>>
    /\ mem' = [stored |-> {Result("periods", "line 515")},
               returned |-> {Result("periods", "line 515")}]
    /\ UNCHANGED <<args, warnings, AnnealLocals>>

NextScales == ScalesFromPeriods

SpecScales == InitScales /\ [][NextScales]_vars

(***************************************************************************)
(* ar1_sim.  The numbers are exact fractions <<num, den>>; the generator   *)
(* behind randn() is the stream of the values it will deliver, one per     *)
(* call, fixed when the call starts.  x0 = None is the empty tuple and a   *)
(* given x0 the tuple of its value.                                        *)
(***************************************************************************)
MaxDraws == 3     \* largest N, and the length of the stream of draws

None == <<>>

RatMul(a, b) == <<a[1] * b[1], a[2] * b[2]>>
RatAdd(a, b) == <<a[1] * b[2] + b[1] * a[2], a[2] * b[2]>>

\* line 655: np.zeros(N) refuses a negative N
ZerosRaises(N) == N < 0

\* line 660: sol[0] = x0 on an array without elements
FirstStoreRaises(N) == ~IndexInBounds(0, N)

\* a start that is scaled by sigma like the later noise terms
StartScaled(sigma, x0, randn) ==
    IF x0 = None THEN RatMul(sigma, randn[0]) ELSE x0[1]

\* lines 657-660: the value stored in sol[0]
Start(sigma, x0, randn) == IF x0 = None THEN randn[0] ELSE x0[1]

\* the number of draws taken before the loop
DrawsBefore(x0) == IF x0 = None THEN 1 ELSE 0

\* lines 662-663: sol after the iterations i, ..., N - 1 of the loop
RECURSIVE AR1Loop(_, _, _, _, _, _)
AR1Loop(sol, i, N, alpha, sigma, draws) ==
    IF i >= N THEN sol
    ELSE AR1Loop([sol EXCEPT ![i] = RatAdd(RatMul(alpha, sol[i - 1]),
                                           RatMul(sigma, draws[i]))],
                 i + 1, N, alpha, sigma, draws)

\* lines 654-665
ar1_sim(alpha, N, sigma, x0, randn) ==
    LET zeros == [i \in 0..N-1 |-> <<0, 1>>]
        first == DrawsBefore(x0)
        draws == [i \in 1..N-1 |-> randn[first + i - 1]]
    IN  AR1Loop([zeros EXCEPT ![0] = Start(sigma, x0, randn)], 1, N, alpha, sigma, draws)

\* ---- the calls tried ----
Alphas == {<<1, 2>>, <<-1, 2>>, <<1, 1>>}
Sigmas == {<<1, 1>>, <<2, 1>>}
Starts == {None, <<<<0, 1>>>>, <<<<3, 1>>>>}
Streams == [0..MaxDraws-1 -> {<<-1, 1>>, <<0, 1>>, <<1, 1>>}]

InitAR1 ==
    /\ \E alpha \in Alphas, N \in -1..MaxDraws, sigma \in Sigmas, x0 \in Starts,
          randn \in Streams :
        args = [fn |-> "ar1_sim", alpha |-> alpha, N |-> N, sigma |-> sigma,
                x0 |-> x0, randn |-> randn]
    /\ pc = "ar1_sim"
    /\ ret = Unbound
    /\ ys = <<>> /\ k = 0 /\ F = Unbound /\ F_c = Unbound /\ Nrej = 0
    /\ T_k = 0 /\ worsened = FALSE /\ warnings = <<>> /\ mem = NoMem

\* lines 652-665
AR1Sim ==
    /\ pc = "ar1_sim"
    /\ IF ZerosRaises(args.N)
       THEN pc' = "ValueError" /\ ret' = Unbound /\ mem' = NoMem
       ELSE IF FirstStoreRaises(args.N)
       THEN pc' = "IndexError" /\ ret' = Unbound
            /\ mem' = [stored |-> {New("line 655")}, returned |-> {}]
       ELSE pc' = "done"
            /\ ret' = <<ar1_sim(args.alpha, args.N, args.sigma, args.x0, args.randn)>>
            /\ mem' = [stored |-> {New("line 655")}, returned |-> {New("line 655")}]
    /\ UNCHANGED <<args, warnings, AnnealLocals>>

NextAR1 == AR1Sim

SpecAR1 == InitAR1 /\ [][NextAR1]_vars

(***************************************************************************)
(* The whole model: a call of any of the functions above.                  *)
(***************************************************************************)
Init ==
    InitAnneal \/ InitRidge \/ InitFilter \/ InitSpectrum \/ InitScales \/ InitAR1

Next ==
    NextAnneal \/ NextRidge \/ NextFilter \/ NextSpectrum \/ NextScales \/ NextAR1

Spec == Init /\ [][Next]_vars

\* the call under way has ended, by a return or by an exception
Ended ==
    pc \notin {"anneal", "get_maxRidge", "eval_ridge", "sinc_filter", "sinc_smooth",
               "smooth", "sliding_window_amplitude", "normalize_with_envelope",
               "compute_spectrum", "find_COI_crossing", "scales_from_periods",
               "ar1_sim"}

\* C4: get_maxRidge returns one row index per column, in [0, P), whose
\* modulus is not below that of any row of the column and which is the
\* lowest such row.
C4_MaxRidgeIsFirstColumnMaximum ==
    (args.fn = "get_maxRidge" /\ pc = "done") =>
        LET mod == args.modulus
            ridge == ret[1]
        IN  /\ DOMAIN ridge = DOMAIN mod[0]
            /\ \A t \in DOMAIN ridge :
                /\ ridge[t] \in DOMAIN mod
                /\ \A y \in DOMAIN mod : RatLE(mod[y][t], mod[ridge[t]][t])
                /\ \A y \in DOMAIN mod : y < ridge[t] => RatLT(mod[y][t], mod[ridge[t]][t])

\* C4 witness: a returned ridge that passes through a row above row 0 which
\* ties with a higher row for the maximum of its column.
C4_Witness ==
    /\ args.fn = "get_maxRidge" /\ pc = "done"
    /\ \E t \in DOMAIN ret[1] : \E y \in DOMAIN args.modulus :
        /\ ret[1][t] > 0
        /\ y > ret[1][t]
        /\ RatEQ(args.modulus[y][t], args.modulus[ret[1][t]][t])

\* the values of a column of the table
Values(col) == {col[j] : j \in DOMAIN col}

\* C5: eval_ridge keeps a time point exactly when its ridge power is
\* strictly above power_thresh.
C5_KeptIffPowerAboveThreshold ==
    (args.fn = "eval_ridge" /\ pc = "done") =>
        /\ \A t \in DOMAIN args.tvec :
            (args.tvec[t] \in Values(ret[1].time))
                <=> RatLT(args.power_thresh, ridge_power(args)[t])
        /\ Length(ret[1].time) =
            Cardinality({t \in DOMAIN args.tvec : RatLT(args.power_thresh, ridge_power(args)[t])})

\* C5 witness: a table that kept a point and dropped a point whose power
\* equals the threshold.
C5_Witness ==
    /\ args.fn = "eval_ridge" /\ pc = "done"
    /\ Length(ret[1].time) > 0
    /\ \E t \in DOMAIN args.tvec :
        /\ RatEQ(ridge_power(args)[t], args.power_thresh)
        /\ args.tvec[t] \notin Values(ret[1].time)

\* C6 (as claimed): with power_thresh at or above the largest ridge power,
\* eval_ridge returns, with or without smoothing, a table without rows.
C6_EmptyTableAboveMaxPower ==
    (/\ args.fn = "eval_ridge" /\ Ended
     /\ RatLE(MaxOf(ridge_power(args)), args.power_thresh)) =>
        /\ pc = "done"
        /\ \A c \in DOMAIN ret[1] : Length(ret[1][c]) = 0

\* C7 (as claimed): with a smoothing window longer than the ridge the filter
\* gets the window shrunk to the largest odd value not above the ridge
\* length, and the call returns ridge data.
C7_ShrunkWindowIsApplied ==
    (/\ args.fn = "eval_ridge" /\ Ended
     /\ Smoothed(args) /\ Length(ridge_per(args)) < args.smoothing_wsize) =>
        /\ AppliedWindow(args) = smoothing(args)
        /\ pc = "done"

\* C8 (as claimed): every value normalize_with_envelope returns is the
\* mean-subtracted sample divided by the envelope at that index.
C8_NormalizedIsMeanSubtracted ==
    (args.fn = "normalize_with_envelope" /\ pc = "done") =>
        LET env == sliding_window_amplitude(MeanSubtracted(args.dsignal),
                                            args.window_size, TRUE)
        IN  \A i \in DOMAIN args.dsignal :
                /\ RatEQ(ret[1][i].times, MeanSubtracted(args.dsignal)[i])
                /\ ret[1][i].over = env[i]

\* C9: sinc_smooth without M builds its kernel with M = len(signal)-1 if
\* that is even and len(signal)-2 otherwise (every weighted sum it returns
\* has M+1 terms), and for a signal of N >= 3 samples it returns N values.
C9_DefaultKernelKeepsLength ==
    (args.fn = "sinc_smooth" /\ args.M = -1 /\ Ended) =>
        LET N == Length(args.raw_signal)
            M == IF (N - 1) % 2 = 0 THEN N - 1 ELSE N - 2
        IN  /\ KernelOrder(args) = M
            /\ N >= 3 =>
                /\ pc = "done"
                /\ Length(ret[1]) = N
                /\ \A n \in DOMAIN ret[1] : Length(ret[1][n]) = M + 1

\* C9 witness: a trend returned for a signal of even length, where the
\* kernel order had to be lowered to len(signal)-2.
C9_Witness ==
    /\ args.fn = "sinc_smooth" /\ args.M = -1 /\ pc = "done"
    /\ Length(args.raw_signal) = 4
    /\ Length(ret[1]) = 4
    /\ Length(ret[1][0]) = 3

\* C10: sinc_filter returns M+1 values for an even M and fails with an
\* assertion error, returning nothing, for an odd M.
C10_KernelLengthOrAssertion ==
    (args.fn = "sinc_filter" /\ Ended) =>
        IF args.M % 2 = 0
        THEN pc = "done" /\ Length(ret[1]) = args.M + 1
        ELSE pc = "AssertionError" /\ ret = Unbound

\* C10 witness: a kernel of five values returned for M = 4.
C10_Witness ==
    /\ args.fn = "sinc_filter" /\ pc = "done"
    /\ args.M = 4
    /\ Length(ret[1]) = 5
    /\ ret[1][2].centre

\* C11 (as claimed): smooth raises, and returns nothing, when the input is
\* shorter than the window, when the window length is below 3 and when it is
\* even, also for the kernel sinc_smooth builds from an explicit M; with any
\* other odd window it returns as many values as the input has.
C11_SmoothRaisesOrKeepsLength ==
    /\ (args.fn = "smooth" /\ Ended) =>
        IF \/ Length(args.x) < args.window_len
           \/ args.window_len < 3
           \/ args.window_len % 2 = 0
        THEN pc = "ValueError" /\ ret = Unbound
        ELSE pc = "done" /\ Length(ret[1]) = Length(args.x)
    /\ (args.fn = "sinc_smooth" /\ args.M # -1 /\ args.M % 2 = 0 /\ Ended) =>
        IF Length(args.raw_signal) < args.M + 1 \/ args.M + 1 < 3
        THEN pc = "ValueError" /\ ret = Unbound
        ELSE pc = "done" /\ Length(ret[1]) = Length(args.raw_signal)

\* C12 (as claimed): compute_spectrum prints the sub-Nyquist warning exactly
\* when periods[0] < 2*dt and the large-period warning exactly when
\* max(periods) > dt*N, and in every case it returns the modulus and the
\* transform, each with one row per period and one column per time point.
C12_WarnsAndReturnsSpectrum ==
    (args.fn = "compute_spectrum" /\ Ended) =>
        /\ ("Nyquist" \in Values(ToArray(warnings))) <=> (args.periods[0] < 2 * args.dt)
        /\ ("LargePeriods" \in Values(ToArray(warnings)))
            <=> (\E y \in DOMAIN args.periods :
                    args.periods[y] > args.dt * Length(args.signal))
        /\ pc = "done"
        /\ \A j \in 1..2 :
            /\ DOMAIN ret[j] = DOMAIN args.periods
            /\ \A y \in DOMAIN ret[j] : DOMAIN ret[j][y] = DOMAIN args.signal

\* C13 (as claimed): compute_spectrum raises no exception for a non-empty
\* signal, dt > 0 and a grid of positive periods, however small the periods.
C13_SpectrumNeverRaises ==
    (args.fn = "compute_spectrum" /\ Ended) => pc = "done"

\* the rows whose period is not below the left boundary m * time
RowsOutsideLeft(rd) ==
    {i \in DOMAIN rd.time : ~COIAbove(rd.time[i], rd.periods[i])}

\* the rows whose period is above the right boundary, m times the distance
\* of the row's time from the right edge of the spectrum
RowsOutsideRight(rd, tvec) ==
    {i \in DOMAIN rd.time :
        COIBelow(tvec[Length(tvec) - 1] - rd.time[i], rd.periods[i])}

\* C14 (as claimed): find_COI_crossing returns the last retained row whose
\* period is not below the left COI boundary and the first retained row whose
\* period is above the right COI boundary, also for a table from which
\* thresholding removed rows.
C14_CrossingsOfRetainedRows ==
    (/\ args.fn = "find_COI_crossing" /\ Ended
     /\ RowsOutsideLeft(args.rd) # {}
     /\ RowsOutsideRight(args.rd, args.tvec) # {}) =>
        /\ pc = "done"
        /\ ret = <<MaxRow(RowsOutsideLeft(args.rd)),
                   MinRow(RowsOutsideRight(args.rd, args.tvec))>>

\* C15: no call stores into an array it was given, and no array it returns
\* is one it was given (the ridge find_ridge_anneal returns is the array made
\* at line 240); the arguments keep the values they were called with.
C15_ArgumentsNotStoredNorReturned ==
    /\ mem.stored \cap ArrayArgs(args) = {}
    /\ mem.returned \cap ArrayArgs(args) = {}
    /\ (args.fn = "find_ridge_anneal" /\ pc = "done") =>
        mem.returned = {ysObject} /\ ysObject \in mem.stored

\* C15 witness: find_ridge_anneal has returned a ridge that its stores
\* changed from the initial straight line.
C15_Witness ==
    /\ args.fn = "find_ridge_anneal" /\ pc = "done"
    /\ ret[1] # StraightLine
    /\ ysObject \in mem.stored
    /\ mem.returned = {ysObject}
    /\ "landscape" \notin mem.stored

\* C16 (as claimed): for two periods p1 < p2 the scale of p1 is below the
\* scale of p2.
C16_ScalesStrictlyIncreasing ==
    (args.fn = "scales_from_periods" /\ pc = "done") =>
        /\ DOMAIN ret[1] = DOMAIN args.periods
        /\ FLess(ret[1][0], ret[1][1])

\* C16 (amended): for two periods p1 < p2 the scale of p1 is not above the
\* scale of p2, and the scale grid has the length of the period grid.
C16_ScalesNotDecreasing ==
    (args.fn = "scales_from_periods" /\ pc = "done") =>
        /\ DOMAIN ret[1] = DOMAIN args.periods
        /\ FLessEq(ret[1][0], ret[1][1])

\* C16 witness: the scales of two neighbouring periods of one exponent have
\* been computed, and the scale of the first is below that of the second.
C16_Witness ==
    /\ args.fn = "scales_from_periods" /\ pc = "done"
    /\ args.periods[0][2] = args.periods[1][2]
    /\ args.periods[1][1] = args.periods[0][1] + 1
    /\ FLess(ret[1][0], ret[1][1])

\* the time indices whose ridge power is above the threshold
KeptIndices(a) ==
    {t \in DOMAIN a.tvec : RatLT(a.power_thresh, ridge_power(a)[t])}

\* the j-th of them in the order of the time vector
KeptIndex(a, j) ==
    CHOOSE t \in KeptIndices(a) : Cardinality({u \in KeptIndices(a) : u < t}) = j

\* C17: the rows of the table eval_ridge returns follow the order of the
\* time vector, the six columns have one length, and row j holds the time,
\* the phase, the power, the amplitude, the (smoothed) period and its
\* inverse of one time index, the j-th index kept.
C17_RowsOrderedAndConsistent ==
    (args.fn = "eval_ridge" /\ pc = "done") =>
        LET tab == ret[1]
            n == Cardinality(KeptIndices(args))
        IN  /\ \A c \in DOMAIN tab : DOMAIN tab[c] = 0..n-1
            /\ \A i \in 0..n-1, j \in 0..n-1 : i < j => tab.time[i] < tab.time[j]
            /\ \A j \in 0..n-1 :
                LET t == KeptIndex(args, j)
                    y == args.ridge_y[t]
                    per == IF Smoothed(args)
                           THEN savgol_filter(ridge_per(args), args.smoothing_wsize, 3)[t]
                           ELSE args.periods[y]
                IN  /\ tab.time[j] = args.tvec[t]
                    /\ tab.phase[j] = Angle(args.wlet[y][t]) % 4
                    /\ tab.power[j] = modulus(args)[y][t]
                    /\ tab.amplitude[j] = power_to_amplitude(<<args.periods[y]>>,
                                                             <<modulus(args)[y][t]>>)[1]
                    /\ tab.periods[j] = per
                    /\ tab.frequencies[j] = <<1, per>>

\* C17 witness: a table made with smoothing from which the threshold removed
\* the first time points and kept later ones.
C17_Witness ==
    /\ args.fn = "eval_ridge" /\ pc = "done"
    /\ Smoothed(args)
    /\ Length(ret[1].time) >= 2
    /\ ret[1].time[0] # args.tvec[0]
    /\ ret[1].periods[0].at = KeptIndex(args, 0)

\* C19 (as claimed): find_ridge_anneal ends after exactly Nsteps iterations,
\* whatever was accepted or rejected: the loop neither ends early nor runs
\* longer.
C19_ExactlyNstepsIterations ==
    args.fn = "find_ridge_anneal" =>
        /\ k <= args.Nsteps
        /\ Ended => k = args.Nsteps

\* C20 (as claimed): the temperature the Metropolis test of iteration k+1
\* uses is not above the one iteration k used, from iteration 0 on, and it is
\* never zero (T_ini / ln(x) with T_ini > 0 is not zero).
C20_TemperatureNeverRises ==
    [][(args.fn = "find_ridge_anneal" /\ k' = k + 1 /\ k' < args.Nsteps)
            => TempNotAbove(T_k', T_k)]_vars


\* C21 (as claimed): the temperature used in the acceptance test of iteration
\* k, counted from 0, is the scaled T_ini divided by ln(2 + k).
C21_TemperatureOfIteration ==
    [][(args.fn = "find_ridge_anneal" /\ k' = k + 1)
            => LogArgument(T_k) = 1000000 * (2 + k)]_vars

\* C22: an iteration that rejects its move (it counts one more rejection)
\* leaves the ridge as it was before the iteration, at every time index.
C22_RejectedMoveIsReverted ==
    [][(args.fn = "find_ridge_anneal" /\ Nrej' = Nrej + 1) => ys' = ys]_vars

\* C22 witness: two rejected uphill moves in a row have left the straight
\* line in place.
C22_Witness ==
    /\ args.fn = "find_ridge_anneal" /\ pc = "anneal"
    /\ k = 2 /\ Nrej = 2
    /\ F_c[1] > F[1]
    /\ ys = StraightLine

\* C23: an iteration whose candidate cost is not above the current cost
\* accepts the move, so that the ridge is the candidate (it differs from the
\* ridge before and its cost is the candidate cost); an iteration that
\* rejects has a candidate cost strictly above the current cost.
C23_NotWorseIsAccepted ==
    [][(args.fn = "find_ridge_anneal" /\ k' = k + 1)
            => /\ F'[1] = RunCost(ys)
               /\ (F_c'[1] <= F'[1])
                    => (Nrej' = 0 /\ ys' # ys /\ RunCost(ys') = F_c'[1])
               /\ (Nrej' # 0) => (F_c'[1] > F'[1] /\ ys' = ys)]_vars

\* C23 witness: a move of equal cost was accepted.
C23_Witness ==
    /\ args.fn = "find_ridge_anneal" /\ pc = "anneal"
    /\ k = 1 /\ Nrej = 0
    /\ F_c[1] = F[1]
    /\ ys # StraightLine /\ OnGrid(ys)
    /\ RunCost(ys) = F_c[1]

\* an entry y in a boundary zone moved by d rows: inward means that it stays
\* on the grid and moves away from the edge whose zone it is in
Inward(y, d) ==
    LET P == Length(args.landscape)
        top == AtTop(y, P, args.mx_jump)
        bottom == AtBottom(y, args.mx_jump)
    IN  /\ 0 <= y + d /\ y + d < P
        /\ (top /\ ~bottom) => d = -1
        /\ (bottom /\ ~top) => d = 1

\* C24 (as claimed): an iteration that changes the ridge changes it at one
\* time index only, by a non-zero number of rows of magnitude at most
\* mx_jump, and by exactly one row inward when the entry was in a boundary
\* zone.
C24_OneBoundedInwardMove ==
    [][(args.fn = "find_ridge_anneal" /\ pc = "anneal" /\ ys' # ys)
            => \E pos \in DOMAIN ys :
                LET d == ys'[pos] - ys[pos]
                    P == Length(args.landscape)
                IN  /\ \A t \in DOMAIN ys \ {pos} : ys'[t] = ys[t]
                    /\ d # 0 /\ Abs(d) <= args.mx_jump
                    /\ (AtTop(ys[pos], P, args.mx_jump) \/ AtBottom(ys[pos], args.mx_jump))
                         => (Abs(d) = 1 /\ Inward(ys[pos], d))]_vars

\* the larger of two integers
Larger(a, b) == IF a >= b THEN a ELSE b

Smaller(a, b) == IF a <= b THEN a ELSE b

\* the values of signal in the window of half-width h around j, clipped at
\* the ends of the signal
ClippedWindow(signal, j, h) ==
    {signal[i] : i \in Larger(0, j - h)..Smaller(Length(signal) - 1, j + h)}

\* C25: without smoothing and for a signal of length N >= w, with w the
\* window size made odd and h = w \div 2, sliding_window_amplitude returns N
\* values, and value j is (max - min)/2 over signal[max(0, j-h) .. min(N-1, j+h)].
C25_AmplitudeOverClippedWindow ==
    (/\ args.fn = "sliding_window_amplitude" /\ Ended
     /\ ~args.SGsmooth
     /\ Length(args.signal) >=
            (IF args.window_size % 2 = 1 THEN args.window_size ELSE args.window_size + 1))
        => LET N == Length(args.signal)
               w == IF args.window_size % 2 = 1 THEN args.window_size
                    ELSE args.window_size + 1
               h == w \div 2
           IN  /\ pc = "done"
               /\ Length(ret[1]) = N
               /\ \A j \in 0..N-1 :
                    LET W == ClippedWindow(args.signal, j, h)
                        hi == CHOOSE v \in W : \A u \in W : u <= v
                        lo == CHOOSE v \in W : \A u \in W : v <= u
                    IN  RatEQ(ret[1][j], <<hi - lo, 2>>)

\* C25 witness: an even window size was made odd, and the amplitude at the
\* left edge, taken over the clipped window, differs from the one next to it.
C25_Witness ==
    /\ args.fn = "sliding_window_amplitude" /\ pc = "done"
    /\ ~args.SGsmooth
    /\ args.window_size = 2
    /\ Length(args.signal) = 4
    /\ RatEQ(ret[1][0], <<0, 1>>)
    /\ RatEQ(ret[1][1], <<1, 2>>)
    /\ RatEQ(ret[1][3], <<0, 1>>)

\* C26: in CWT the kernel of every scale has 2 * x_max samples when that is
\* at most N and N samples otherwise, so it is never longer than the signal;
\* a call in which no kernel is empty returns, and the transform returned
\* has one row per scale and N columns in every row.
C26_KernelFitsAndShape ==
    (args.fn = "compute_spectrum" /\ Ended)
        => LET N == Length(args.signal)
               P == Length(args.periods)
               xm(y) == x_max(args.periods[y], args.dt)
           IN  /\ (\A y \in 0..P-1 : xm(y) >= 1) => pc = "done"
               /\ pc = "done"
                    => /\ Length(ret[2]) = P
                       /\ \A y \in 0..P-1 :
                            /\ Length(ret[2][y]) = N
                            /\ \A t \in 0..N-1 :
                                /\ ret[2][y][t].support =
                                       (IF 2 * xm(y) <= N THEN 2 * xm(y) ELSE N)
                                /\ ret[2][y][t].support <= N

\* C26 witness: a transform of two scales, the first with a kernel shorter
\* than the signal and the second with the kernel cut down to N samples.
C26_Witness ==
    /\ args.fn = "compute_spectrum" /\ pc = "done"
    /\ Length(args.periods) = 2
    /\ 2 * x_max(args.periods[0], args.dt) < Length(args.signal)
    /\ 2 * x_max(args.periods[1], args.dt) > Length(args.signal)
    /\ ret[2][0][0].support = 2 * x_max(args.periods[0], args.dt)
    /\ ret[2][1][0].support = Length(args.signal)

\* the noise term of element i: the draw taken in iteration i of the loop,
\* which follows the draw for x0 when x0 is not given
Noise(i) == args.randn[(IF args.x0 = None THEN 1 ELSE 0) + i - 1]

\* C27: for N >= 1, ar1_sim returns N values; the first is x0 when x0 is
\* given and the first draw, not scaled by sigma, when it is not; element i
\* is alpha * x[i-1] + sigma * noise_i for every 1 <= i < N.
C27_AR1Recurrence ==
    (args.fn = "ar1_sim" /\ Ended /\ args.N >= 1)
        => /\ pc = "done"
           /\ Length(ret[1]) = args.N
           /\ IF args.x0 = None THEN RatEQ(ret[1][0], args.randn[0])
              ELSE RatEQ(ret[1][0], args.x0[1])
           /\ \A i \in 1..args.N-1 :
                RatEQ(ret[1][i],
                      RatAdd(RatMul(args.alpha, ret[1][i - 1]),
                             RatMul(args.sigma, Noise(i))))

\* C27 witness: three values from a drawn start with sigma = 2, none of
\* them zero.
C27_Witness ==
    /\ args.fn = "ar1_sim" /\ pc = "done"
    /\ args.N = 3 /\ args.x0 = None /\ args.sigma = <<2, 1>>
    /\ args.alpha = <<1, 2>>
    /\ RatEQ(ret[1][0], <<1, 1>>)
    /\ RatEQ(ret[1][1], <<5, 2>>)
    /\ RatEQ(ret[1][2], <<-3, 4>>)

\* row i of rd has a period of at least m * time
AtOrAboveLeftCOI(rd, i) == 1000000 * rd.periods[i] >= Morlet_COI * rd.time[i]

\* row i of rd has a period above m times the time that row i has when the
\* time column is reversed
AboveReversedCOI(rd, i) ==
    1000000 * rd.periods[i] > Morlet_COI * rd.time[Length(rd.time) - 1 - i]

\* C29: find_COI_crossing returns, and then a pair of such rows, only for
\* ridge data with a row whose period is at least m * time and a row whose
\* period is above the reversed-time COI value; for any other ridge data,
\* the empty table among them, it ends with IndexError and returns nothing.
C29_ReturnsOrIndexError ==
    (args.fn = "find_COI_crossing" /\ Ended)
        => LET rd == args.rd
               both == /\ \E i \in DOMAIN rd.time : AtOrAboveLeftCOI(rd, i)
                       /\ \E i \in DOMAIN rd.time : AboveReversedCOI(rd, i)
           IN  /\ both => /\ pc = "done"
                          /\ Length(ret) = 2
                          /\ AtOrAboveLeftCOI(rd, ret[1])
                          /\ AboveReversedCOI(rd, ret[2])
               /\ ~both => (pc = "IndexError" /\ ret = Unbound)

\* C29 witness: the call fails with IndexError on a table that has rows,
\* none of them with a period of at least m * time.
C29_Witness ==
    /\ args.fn = "find_COI_crossing" /\ pc = "IndexError" /\ ret = Unbound
    /\ Length(args.rd.time) >= 1
    /\ \A i \in DOMAIN args.rd.time : ~AtOrAboveLeftCOI(args.rd, i)

\* two values are the same term; unlike =, this also compares a number with
\* a term that is not a number
SameTerm(x, y) == ToString(x) = ToString(y)

\* the table of the same call without smoothing
Unsmoothed == ridge_data([args EXCEPT !.smoothing_wsize = 0])

\* C30: a table that eval_ridge returns has the time, phase, power and
\* amplitude columns and the rows of the table returned for the same ridge,
\* transform, signal and threshold without smoothing, and in every row its
\* frequency is 1 / its period.
C30_SmoothingChangesPeriodsOnly ==
    (args.fn = "eval_ridge" /\ pc = "done")
        => /\ ret[1].time = Unsmoothed.time
           /\ ret[1].phase = Unsmoothed.phase
           /\ ret[1].power = Unsmoothed.power
           /\ SameTerm(ret[1].amplitude, Unsmoothed.amplitude)
           /\ DOMAIN ret[1].periods = DOMAIN Unsmoothed.periods
           /\ DOMAIN ret[1].frequencies = DOMAIN ret[1].periods
           /\ \A j \in DOMAIN ret[1].periods :
                ret[1].frequencies[j] = <<1, ret[1].periods[j]>>

\* C30 witness: a smoothed table from which the threshold removed rows and
\* whose periods differ from the unsmoothed ones.
C30_Witness ==
    /\ args.fn = "eval_ridge" /\ pc = "done"
    /\ Smoothed(args)
    /\ Length(ret[1].time) >= 1
    /\ Length(ret[1].time) < Length(args.tvec)
    /\ ~SameTerm(ret[1].periods, Unsmoothed.periods)
    /\ SameTerm(ret[1].amplitude, Unsmoothed.amplitude)
====
